---- MODULE Spec2Model ----
(***************************************************************************)
(* LiveController (electron/main/tasks/controller/LiveController.ts):      *)
(* overlay recovery, the goods-item locator (findGoodsItemById /           *)
(* getCurrentGoodsItem), sendMessage and popUp, run against a page whose   *)
(* goods list is a virtualized window over a catalog.                      *)
(*                                                                         *)
(* One step of the model is one resumption of the command's body: the      *)
(* code from the completion of one await up to the issue of the next.      *)
(*                                                                         *)
(* RendererSpec is the renderer's side: PrintService (printComment,        *)
(* resetPrintCount, init), usePrintSettings, and useAutoReply's            *)
(* handleComment, a synchronous handler that is one step.                  *)
(***************************************************************************)
EXTENDS Integers, Sequences, FiniteSets, TLC

\* ---------------------------------------------------------------- bounds
MaxId == 4          \* goods ids are 1..MaxId
MaxLen == 3         \* longest catalog
MaxOverscan == 1    \* rows the page renders on each side of the viewport row
ItemHeight == 100   \* scroll units per catalog row
CountCap == 2       \* ghost counters saturate here
MaxRelocate == 1    \* re-locate callbacks one strategy run may make
MaxScrollTop == 24  \* largest scrollTop of the pixel-level scroll container
MaxComments == 1    \* comments a context keeps (MAX_COMMENTS, 500 in the source)
MaxLimitCount == 1  \* largest count of the print limit rule (the default is 50)

\* ------------------------------------------------------- program constants
Tolerance == 10     \* stagnation band, prevScrollTop -/+ 10
NaN == -1           \* Number.NaN, the default prevScrollTop (scrollTop is >= 0)
Null == 0           \* an absent handle (handles are catalog rows 1..Len)

Ids == 1..MaxId
Platforms == {"kuaishou", "eos"}

VARIABLES
  platform, elementFinder, popUpStrategy, closeOverlaysSelectors, \* controller fields
  aborted,            \* abortSignal.aborted
  catalog, overscan, pos,   \* the page's goods list
  op, id, pinTop,     \* the running command and its arguments
  pc,                 \* where the command's body is suspended
  outcome,            \* what the caller of the command has observed
  ret,                \* the value the command resolved with
  selIdx,             \* recoveryLive: index of the selector being visited
  textarea, pinTopLabel, submit_btn, \* sendMessage: what the finder returned
  successPinTop,      \* sendMessage local
  win, pending,       \* getCurrentGoodsItem: currentGoodsItems, probes in flight
  goodsItem,          \* the element getCurrentGoodsItem returned
  found,              \* its found flag
  prevScrollTop,      \* findGoodsItemById argument
  scrollContainer,    \* findGoodsItemById: what the finder returned
  button,             \* getPopUpButtonById result
  caller,             \* who awaits getPopUpButtonById: "popUp" or "strategy"
  relocates,          \* re-locate callbacks made by the running strategy
  iter, iterActs, locResult,        \* ghost: locator iteration, its page actions, run result
  fills, pinClicks, submitClicks, dismissClicks, \* ghost: page actions of the command
  strategyCalls, strategyTrigger,   \* ghost: strategy invocations, trigger it was given
  isReversed,         \* getCurrentGoodsItem local
  beforeScrollTop,    \* ghost: scrollTop held when the iteration's scroll was issued
  abortedAt,          \* ghost: the signal was raised in the probes, the settle sleep, elsewhere
  lateActs,           \* ghost: page actions the command issued after the signal was raised
  shown,              \* ghost: selectors whose element the running recoveryLive has found
  pixelTop,           \* scrollTop of a scroll container that moves by pixels (ScrollSpec)
  isReady, getCLodop, \* PrintService.isReady; window.getCLodop is defined
  _printCount, printedCommentIds,   \* PrintService fields
  enabled, rules, limitRule,        \* usePrintSettings state
  isRunning, comments, config,      \* the account's AutoReplyContext
  comment,            \* the message of the handleComment call that ran last
  did,                \* ghost: what the handler that ran last did
  printed             \* ghost: LODOP.PRINT() calls per msg_id since the last reset

ctl == <<platform, elementFinder, popUpStrategy, closeOverlaysSelectors>>
list == <<catalog, overscan>>
args == <<op, id, pinTop>>
sendLocals == <<textarea, pinTopLabel, submit_btn, successPinTop>>
locLocals == <<win, pending, goodsItem, found, prevScrollTop, scrollContainer, button,
              caller, relocates>>
locGhost == <<iter, iterActs, locResult>>
actGhost == <<fills, pinClicks, submitClicks, dismissClicks, strategyCalls, strategyTrigger>>
scanLocals == <<isReversed, beforeScrollTop>>
abortGhost == <<abortedAt, lateActs>>
\* state the commands of LiveController on the row-level page leave alone
printFields == <<isReady, getCLodop, _printCount, printedCommentIds>>
printSettings == <<enabled, rules, limitRule>>
context == <<isRunning, comments, config>>
handled == <<comment, did, printed>>
renderer == <<printFields, printSettings, context, handled>>
others == <<pixelTop, renderer>>
vars == <<ctl, aborted, list, pos, args, pc, outcome, ret, selIdx, sendLocals,
          locLocals, locGhost, actGhost, scanLocals, abortGhost, shown, others>>

\* ---------------------------------------------------------------- helpers
Min(a, b) == IF a < b THEN a ELSE b
Max(a, b) == IF a > b THEN a ELSE b
Bump(n) == Min(n + 1, CountCap)
Range(s) == {s[i] : i \in 1..Len(s)}
Ascending(s) == \A i, j \in 1..Len(s) : i < j => s[i] < s[j]
Descending(s) == \A i, j \in 1..Len(s) : i < j => s[i] > s[j]
Monotone(s) == Ascending(s) \/ Descending(s)
\* The catalogs: unique ids, listed in ascending or in descending order.
Catalogs == {s \in UNION {[1..n -> Ids] : n \in 0..MaxLen} : Monotone(s)}

\* ------------------------------------------------- platform-specific parts
getLiveControlElementFinder(p) ==
  CASE p = "eos" -> "EOSLiveControlElementFinder"
    [] p = "redbook" -> "RedbookLiveControlElementFinder"
    [] p = "wxchannel" -> "WxChannelLiveControlElementFinder"
    [] p = "kuaishou" -> "KuaishouLiveControlElementFinder"
    [] p = "taobao" -> "TaobaoLiveControlElementFinder"
    [] p \in {"buyin", "douyin"} -> "BuyinLiveControlElementFinder"
    [] OTHER -> "undefined"

getCloseOverlays(p) ==
  CASE p = "wxchannel" -> <<"wxchannel.CLOSE_BUTTON">>
    [] p = "kuaishou" -> <<"kuaishou.SWITCH_TO_GROUP_BUYING", "kuaishou.LIVE_ON">>
    [] p \in {"douyin", "buyin"} ->
         <<"douyin.AFK_CLOSE_BUTTON", "douyin.LIVE_OVER_CLOSE_BUTTON">>
    [] OTHER -> <<>>

getPopUpStrategy(p) == <<"PopUpStrategy", p>>

\* ------------------------------------------------------------------- page
\* The rows the page has materialized: the viewport row and up to `o` rows
\* on each side of it.  A handle is a catalog row.
getCurrentGoodsItemsList(cat, p, o) ==
  IF Len(cat) = 0 THEN <<>>
  ELSE LET lo == Max(1, p - o)
           hi == Min(Len(cat), p + o)
       IN [k \in 1..(hi - lo + 1) |-> lo + k - 1]

getIdFromGoodsItem(cat, h) == cat[h]

\* mutant: the scroll is not made
StayInView(p, h) == p

\* element.scrollIntoViewIfNeeded(): the row becomes the viewport row.
scrollIntoViewIfNeeded(p, h) == h

\* scrollContainer.evaluate(el => el.scrollTop)
scrollTopOf(p) == (p - 1) * ItemHeight

\* ------------------------------------------------ getCurrentGoodsItem, pure
\* mutant: the probe rejects on `itemId < id` only
ProbeMatchesLoose(itemId, target) == itemId >= target

\* `itemId !== id` rejects the probe; a probe that is not rejected fulfils.
ProbeMatches(itemId, target) == itemId = target

\* mutant: the first rejection settles the race (Promise.race for Promise.any)
FirstRejected(inFlight) == TRUE

\* mutant: the race is given up with one probe still in flight
AllButOneRejected(inFlight) == Cardinality(inFlight) <= 1

\* Promise.any rejects (AggregateError) once every probe has rejected.
AllRejected(inFlight) == inFlight = {}

\* mutant: the empty-list check is missing
NoGoodsUnchecked(w) == FALSE

\* `!firstGoodsItem || !lastGoodsItem`
NoGoods(w) == Len(w) = 0

\* mutant: the comparison is the wrong way round
IsReversedFlipped(firstIdValue, lastIdValue) == firstIdValue < lastIdValue

\* mutant: equal ids count as reversed
IsReversedNonStrict(firstIdValue, lastIdValue) == firstIdValue >= lastIdValue

\* `const isReversed = firstIdValue > lastIdValue`
IsReversed(firstIdValue, lastIdValue) == firstIdValue > lastIdValue

\* mutant: the two orientations are swapped
NeedScrollUpSwapped(target, firstIdValue, lastIdValue) ==
  \/ IsReversed(firstIdValue, lastIdValue) /\ target < firstIdValue
  \/ ~IsReversed(firstIdValue, lastIdValue) /\ target > firstIdValue

\* mutant: a target between the two ids goes to the edge nearer to it
NeedScrollUpNearer(target, firstIdValue, lastIdValue) ==
  LET lo == Min(firstIdValue, lastIdValue)
      hi == Max(firstIdValue, lastIdValue)
      toFirst == IF target > firstIdValue THEN target - firstIdValue
                 ELSE firstIdValue - target
      toLast == IF target > lastIdValue THEN target - lastIdValue
                ELSE lastIdValue - target
  IN IF lo < target /\ target < hi
       THEN toFirst < toLast
       ELSE \/ ~IsReversed(firstIdValue, lastIdValue) /\ target < firstIdValue
            \/ IsReversed(firstIdValue, lastIdValue) /\ target > firstIdValue

\* `(!isReversed && id < firstIdValue) || (isReversed && id > firstIdValue)`
NeedScrollUp(target, firstIdValue, lastIdValue) ==
  \/ ~IsReversed(firstIdValue, lastIdValue) /\ target < firstIdValue
  \/ IsReversed(firstIdValue, lastIdValue) /\ target > firstIdValue

\* the element returned when nothing matched
EdgeElement(cat, w, target) ==
  LET firstIdValue == getIdFromGoodsItem(cat, w[1])
      lastIdValue == getIdFromGoodsItem(cat, w[Len(w)])
  IN IF NeedScrollUp(target, firstIdValue, lastIdValue) THEN w[1] ELSE w[Len(w)]

\* ------------------------------------------------- findGoodsItemById, pure
\* mutant: the first call starts from a baseline of 0 (`prevScrollTop = 0`)
StagnatedFromZero(prev, cur) ==
  LET base == IF prev = NaN THEN 0 ELSE prev
  IN base - Tolerance <= cur /\ cur <= base + Tolerance

\* mutant: the band excludes its two ends
StagnatedStrict(prev, cur) ==
  /\ prev # NaN
  /\ prev - Tolerance < cur
  /\ cur < prev + Tolerance

\* mutant: the stagnation test is missing
StagnatedNever(prev, cur) == FALSE

\* `!Number.isNaN(prevScrollTop) && prevScrollTop - 10 <= currentScrollTop
\*  && currentScrollTop <= prevScrollTop + 10`
Stagnated(prev, cur) ==
  /\ prev # NaN
  /\ prev - Tolerance <= cur
  /\ cur <= prev + Tolerance

\* ------------------------------------------------------ absence checks
\* mutant: the `if (!textarea)` check is missing
NoTextareaUnchecked(t) == FALSE
NoTextarea(t) == t = "absent"
NoPinTopLabel(l) == l = "absent"
\* mutant: the `if (!submit_btn)` check is missing
NoSubmitBtnUnchecked(b) == FALSE
NoSubmitBtn(b) == b = "absent"
NoScrollContainer(c) == c = "absent"
Found(present) == IF present THEN "present" ELSE "absent"

\* ------------------------------------------------- the renderer's stores
\* msg_id values
MsgIds == {"m1", "m2"}

\* the name of the streamer's own account, and the persisted block list
accountName == "streamer"
blockList == {"blocked"}
Nicks == {"streamer", "blocked", "fan"}

MsgTypes == {"comment", "room_enter"}

\* content is the set of the words in it; '' is the empty set
Words == {"#print", "price"}
Contents == SUBSET Words
Includes(content, pattern) == pattern \subseteq content

\* the messages handleComment is given (content is passed beside them)
Comments == [msg_id : MsgIds, msg_type : MsgTypes, nick_name : Nicks]
NoComment == [msg_id |-> "none", msg_type |-> "none", nick_name |-> "none"]

\* the rule usePrintSettings starts with
DefaultRules == <<[type |-> "contains", pattern |-> {"#print"}, enabled |-> TRUE]>>

\* persisted AutoReplyConfig: one keyword rule, whose contents hold an empty
\* string, and the replies to room_enter
KeywordRules == <<[keywords |-> {{"price"}}, contents |-> <<"", "9.9">>]>>
room_enter == [enable |-> TRUE, messages |-> <<"welcome">>]

\* no handler has run, or the one that ran called nothing
Idle ==
  [handler |-> "none", returnedAt |-> "none", printCalled |-> FALSE,
   printResult |-> "none", keywordTried |-> FALSE, keywordReplied |-> FALSE,
   aiTried |-> FALSE, sent |-> "none"]

\* The renderer after its modules are loaded: the PrintService singleton is
\* constructed and its init() is under way, usePrintSettings and the
\* account's context hold their defaults.
RendererConstructed ==
  /\ isReady = FALSE /\ getCLodop = FALSE
  /\ _printCount = 0 /\ printedCommentIds = {}
  /\ enabled = FALSE /\ rules = DefaultRules
  /\ limitRule = [count |-> MaxLimitCount, enabled |-> FALSE]
  /\ isRunning = FALSE /\ comments = <<>>
  /\ config = [keywordReply |-> FALSE, aiReply |-> FALSE]
  /\ comment = NoComment /\ did = Idle
  /\ printed = [m \in MsgIds |-> 0]

\* ------------------------------------------------------------------- Init
\* The state after `new LiveController(page, logger, abortSignal)` on a
\* freshly loaded page (viewport on the first row), no command running.
Init ==
  /\ platform \in Platforms
  /\ elementFinder = getLiveControlElementFinder(platform)
  /\ popUpStrategy = getPopUpStrategy(platform)
  /\ closeOverlaysSelectors = getCloseOverlays(platform)
  /\ aborted = FALSE
  /\ catalog \in Catalogs
  /\ overscan \in 0..MaxOverscan
  /\ pos = 1
  /\ op = "none" /\ id = 0 /\ pinTop = FALSE
  /\ pc = "idle" /\ outcome = "none" /\ ret = "none"
  /\ selIdx = 0
  /\ textarea = "unset" /\ pinTopLabel = "unset" /\ submit_btn = "unset"
  /\ successPinTop = FALSE
  /\ win = <<>> /\ pending = {} /\ goodsItem = Null /\ found = FALSE
  /\ prevScrollTop = NaN /\ scrollContainer = "unset" /\ button = "unset"
  /\ caller = "none" /\ relocates = 0
  /\ iter = 0 /\ iterActs = <<>> /\ locResult = "none"
  /\ fills = 0 /\ pinClicks = 0 /\ submitClicks = 0 /\ dismissClicks = 0
  /\ strategyCalls = 0 /\ strategyTrigger = "unset"
  /\ isReversed = FALSE /\ beforeScrollTop = NaN
  /\ abortedAt = "none" /\ lateActs = {}
  /\ shown = {}
  /\ pixelTop = 0
  /\ RendererConstructed

\* ------------------------------------------------ settling of the command
\* The caller sees the first settlement of the decorated command; a throw or
\* return of a body whose command the abort has already rejected is dropped.
\* mutant: a later throw of the body replaces what the caller has seen
ThrowOverwrites(e) ==
  /\ pc' = "done"
  /\ outcome' = e
  /\ UNCHANGED ret

Throw(e) ==
  /\ pc' = "done"
  /\ outcome' = IF outcome = "pending" THEN e ELSE outcome
  /\ UNCHANGED ret

Return ==
  /\ pc' = "done"
  /\ outcome' = IF outcome = "pending" THEN "ok" ELSE outcome
  /\ ret' = IF outcome = "pending" THEN "undefined" ELSE ret

EndLocate(r) == locResult' = IF locResult = "running" THEN r ELSE locResult

\* The body issues the page action `a`; it is a late one when the signal has
\* been raised before.
Issue(a) == lateActs' = IF aborted THEN lateActs \cup {a} ELSE lateActs

\* mutant: the call does not go through the decorator
EntryUnchecked(signal) == FALSE

\* @abortable on findGoodsItemById: every entry, the recursive one included,
\* reads the signal first.
EntryAborted(signal) == signal

\* ---------------------------------------------------- findGoodsItemById entry
\* The decorated findGoodsItemById and getCurrentGoodsItem are entered in one
\* synchronous stretch: both check the signal, then the list read is issued.
\* Sets pc, outcome, ret, locGhost, prevScrollTop.
EnterLocate ==
  IF EntryAborted(aborted)
    THEN /\ Throw("Aborted")
         /\ UNCHANGED <<locGhost, prevScrollTop>>
    ELSE /\ pc' = "list"
         /\ prevScrollTop' = NaN
         /\ iter' = 1
         /\ iterActs' = <<>>
         /\ locResult' = "running"
         /\ UNCHANGED <<outcome, ret>>

\* ------------------------------------------------------------ recoveryLive
\* What follows `await this.recoveryLive()` in the command `o`.
\* Sets pc, outcome, ret, locGhost, prevScrollTop, caller.
AfterRecovery(o) ==
  IF o = "sendMessage"
    THEN /\ pc' = "textarea"
         /\ UNCHANGED <<outcome, ret, locGhost, prevScrollTop, caller>>
    ELSE /\ caller' = "popUp"
         /\ EnterLocate

\* mutant: the loop is left after its first selector
NextSelectorBreak(o, i) ==
  /\ selIdx' = i
  /\ shown' = {}
  /\ AfterRecovery(o)

\* Advance the for-loop over closeOverlaysSelectors from index i.
\* Sets selIdx, shown and what AfterRecovery sets.
NextSelector(o, i) ==
  IF i < Len(closeOverlaysSelectors)
    THEN /\ selIdx' = i + 1
         /\ pc' = "recoveryQuery"
         /\ UNCHANGED <<outcome, ret, locGhost, prevScrollTop, caller, shown>>
    ELSE /\ selIdx' = i
         /\ shown' = {}
         /\ AfterRecovery(o)

\* mutant: the `if (closeButton)` test is missing
DismissUnchecked(closeButton) == TRUE

\* `if (closeButton)`
ShouldDismiss(closeButton) == closeButton = "present"

\* ----------------------------------------------------------------- commands
\* @abortable sendMessage(message, pinTop): the entry check, then recoveryLive.
StartSendMessage ==
  /\ pc = "idle"
  /\ \E p \in BOOLEAN : pinTop' = p
  /\ op' = "sendMessage"
  /\ IF aborted
       THEN /\ pc' = "done" /\ outcome' = "Aborted"
            /\ UNCHANGED <<ret, selIdx, locGhost, prevScrollTop, caller>>
       ELSE /\ outcome' = "pending"
            /\ UNCHANGED ret
            /\ IF Len(closeOverlaysSelectors) = 0
                 THEN /\ pc' = "textarea"
                      /\ UNCHANGED <<selIdx, locGhost, prevScrollTop, caller>>
                 ELSE /\ pc' = "recoveryQuery" /\ selIdx' = 1
                      /\ UNCHANGED <<locGhost, prevScrollTop, caller>>
  /\ UNCHANGED <<scanLocals, abortGhost, ctl, others, shown, aborted, list, pos, id, sendLocals, win, pending, goodsItem, found,
                 scrollContainer, button, relocates, actGhost>>

\* @abortable popUp(id): the entry check, then recoveryLive.
StartPopUp ==
  /\ pc = "idle"
  /\ \E i \in Ids : id' = i
  /\ op' = "popUp"
  /\ IF aborted
       THEN /\ pc' = "done" /\ outcome' = "Aborted"
            /\ UNCHANGED <<ret, selIdx, locGhost, prevScrollTop, caller>>
       ELSE IF Len(closeOverlaysSelectors) = 0
         THEN /\ caller' = "popUp"
              /\ pc' = "list" /\ outcome' = "pending"
              /\ prevScrollTop' = NaN /\ iter' = 1 /\ iterActs' = <<>>
              /\ locResult' = "running"
              /\ UNCHANGED <<ret, selIdx>>
         ELSE /\ pc' = "recoveryQuery" /\ selIdx' = 1 /\ outcome' = "pending"
              /\ UNCHANGED <<ret, locGhost, prevScrollTop, caller>>
  /\ UNCHANGED <<scanLocals, abortGhost, ctl, others, shown, aborted, list, pos, pinTop, sendLocals, win, pending, goodsItem,
                 found, scrollContainer, button, relocates, actGhost>>

\* `await this.page.$(selector)` resumes: a present button gets its click, an
\* absent one is passed over, a rejection of the query leaves recoveryLive
\* and the command (nothing catches it).
RecoveryQuery ==
  /\ pc = "recoveryQuery"
  /\ \E closeButton \in {"present", "absent", "rejected"} :
       IF closeButton = "rejected"
         THEN /\ Throw("PageError")
              /\ shown' = {}
              /\ UNCHANGED <<selIdx, locGhost, prevScrollTop, caller, dismissClicks,
                             lateActs>>
         ELSE IF ShouldDismiss(closeButton)
           THEN /\ pc' = "recoveryClick"
                /\ dismissClicks' = Bump(dismissClicks)
                /\ Issue("dismiss")
                /\ shown' = IF closeButton = "present" THEN shown \cup {selIdx} ELSE shown
                /\ UNCHANGED <<selIdx, outcome, ret, locGhost, prevScrollTop, caller>>
           ELSE /\ NextSelector(op, selIdx)
                /\ UNCHANGED <<dismissClicks, lateActs>>
  /\ UNCHANGED <<scanLocals, abortedAt, ctl, others, aborted, list, pos, args, sendLocals, win, pending, goodsItem, found,
                 scrollContainer, button, relocates, fills, pinClicks, submitClicks,
                 strategyCalls, strategyTrigger>>

\* `await closeButton.dispatchEvent('click')` resumes, or rejects: nothing
\* catches the rejection.
RecoveryClick ==
  /\ pc = "recoveryClick"
  /\ \E rejected \in BOOLEAN :
       IF rejected
         THEN /\ Throw("PageError")
              /\ shown' = {}
              /\ UNCHANGED <<selIdx, locGhost, prevScrollTop, caller>>
         ELSE NextSelector(op, selIdx)
  /\ UNCHANGED <<scanLocals, abortGhost, ctl, others, aborted, list, pos, args, sendLocals, win, pending, goodsItem, found,
                 scrollContainer, button, relocates, actGhost>>

\* ------------------------------------------------------------- sendMessage
\* getCommentTextarea() resumes: throw, or issue textarea.fill(message).
GetCommentTextarea ==
  /\ pc = "textarea"
  /\ \E present \in BOOLEAN : textarea' = Found(present)
  /\ IF NoTextarea(textarea')
       THEN /\ Throw("NoInputSurface")
            /\ UNCHANGED <<fills, lateActs>>
       ELSE /\ pc' = "fill"
            /\ fills' = Bump(fills)
            /\ Issue("fill")
            /\ UNCHANGED <<outcome, ret>>
  /\ UNCHANGED <<scanLocals, abortedAt, ctl, others, shown, aborted, list, pos, args, selIdx, pinTopLabel, submit_btn,
                 successPinTop, locLocals, locGhost, pinClicks, submitClicks,
                 dismissClicks, strategyCalls, strategyTrigger>>

\* fill resumes: clickPinTopButton() if pinTop, else clickSubmitCommentButton().
Fill ==
  /\ pc = "fill"
  /\ pc' = IF pinTop THEN "pinTopLabel" ELSE "submit_btn"
  /\ UNCHANGED <<scanLocals, abortGhost, ctl, others, shown, aborted, list, pos, args, outcome, ret, selIdx, sendLocals,
                 locLocals, locGhost, actGhost>>

\* getPinTopLabel() resumes: absent returns false, present gets its click.
GetPinTopLabel ==
  /\ pc = "pinTopLabel"
  /\ \E present \in BOOLEAN : pinTopLabel' = Found(present)
  /\ IF NoPinTopLabel(pinTopLabel')
       THEN /\ pc' = "submit_btn"
            /\ successPinTop' = FALSE
            /\ UNCHANGED <<pinClicks, lateActs>>
       ELSE /\ pc' = "pinClick"
            /\ pinClicks' = Bump(pinClicks)
            /\ Issue("click")
            /\ UNCHANGED successPinTop
  /\ UNCHANGED <<scanLocals, abortedAt, ctl, others, shown, aborted, list, pos, args, outcome, ret, selIdx, textarea, submit_btn,
                 locLocals, locGhost, fills, submitClicks, dismissClicks, strategyCalls,
                 strategyTrigger>>

\* the pin click resumes: clickPinTopButton returns true.
PinClick ==
  /\ pc = "pinClick"
  /\ successPinTop' = TRUE
  /\ pc' = "submit_btn"
  /\ UNCHANGED <<scanLocals, abortGhost, ctl, others, shown, aborted, list, pos, args, outcome, ret, selIdx, textarea,
                 pinTopLabel, submit_btn, locLocals, locGhost, actGhost>>

\* getClickableSubmitCommentButton() resumes: throw, or issue the click.
GetSubmitBtn ==
  /\ pc = "submit_btn"
  /\ \E present \in BOOLEAN : submit_btn' = Found(present)
  /\ IF NoSubmitBtn(submit_btn')
       THEN /\ Throw("NotSubmittable")
            /\ UNCHANGED <<submitClicks, lateActs>>
       ELSE /\ pc' = "submitClick"
            /\ submitClicks' = Bump(submitClicks)
            /\ Issue("click")
            /\ UNCHANGED <<outcome, ret>>
  /\ UNCHANGED <<scanLocals, abortedAt, ctl, others, shown, aborted, list, pos, args, selIdx, textarea, pinTopLabel,
                 successPinTop, locLocals, locGhost, fills, pinClicks, dismissClicks,
                 strategyCalls, strategyTrigger>>

\* the submit click resumes: log success, return (no value).
SubmitClick ==
  /\ pc = "submitClick"
  /\ Return
  /\ UNCHANGED <<scanLocals, abortGhost, ctl, others, shown, aborted, list, pos, args, selIdx, sendLocals, locLocals, locGhost,
                 actGhost>>

\* ------------------------------------------------------ getCurrentGoodsItem
\* getCurrentGoodsItemsList() resumes: every probe is issued at once; with no
\* item Promise.any rejects at once and the empty-catalog error is thrown.
ReadList ==
  /\ pc = "list"
  /\ win' = getCurrentGoodsItemsList(catalog, pos, overscan)
  /\ found' = FALSE
  /\ isReversed' = FALSE
  /\ IF NoGoods(win')
       THEN /\ Throw("NotFoundEmpty")
            /\ EndLocate("NotFound")
            /\ pending' = {}
       ELSE /\ pc' = "probe"
            /\ pending' = 1..Len(win')
            /\ UNCHANGED <<outcome, ret, locResult>>
  /\ UNCHANGED <<beforeScrollTop, abortGhost, ctl, others, shown, aborted, list, pos, args, selIdx, sendLocals, goodsItem,
                 prevScrollTop, scrollContainer, button, caller, relocates, iter, iterActs,
                 actGhost>>

\* One probe's getIdFromGoodsItem resumes.  A match fulfils Promise.any: the
\* element goes back through findGoodsItemById to getPopUpButtonById, which
\* issues getPopUpButtonFromGoodsItem.  The last rejection sends the code on
\* to the first-id read.
Probe ==
  /\ pc = "probe"
  /\ \E i \in pending :
       /\ pending' = pending \ {i}
       /\ IF ProbeMatches(getIdFromGoodsItem(catalog, win[i]), id)
            THEN /\ goodsItem' = win[i]
                 /\ found' = TRUE
                 /\ pc' = "getButton"
                 /\ EndLocate("found")
            ELSE /\ pc' = IF AllRejected(pending') THEN "firstId" ELSE "probe"
                 /\ UNCHANGED <<goodsItem, found, locResult>>
  /\ UNCHANGED <<scanLocals, abortGhost, ctl, others, shown, aborted, list, pos, args, outcome, ret, selIdx, sendLocals, win,
                 prevScrollTop, scrollContainer, button, caller, relocates, iter, iterActs,
                 actGhost>>

\* getIdFromGoodsItem(firstGoodsItem) resumes.
FirstId ==
  /\ pc = "firstId"
  /\ pc' = "lastId"
  /\ UNCHANGED <<scanLocals, abortGhost, ctl, others, shown, aborted, list, pos, args, outcome, ret, selIdx, sendLocals,
                 locLocals, locGhost, actGhost>>

\* getIdFromGoodsItem(lastGoodsItem) resumes: the edge element is returned
\* and findGoodsItemById issues element.scrollIntoViewIfNeeded().
LastId ==
  /\ pc = "lastId"
  /\ isReversed' = IsReversed(getIdFromGoodsItem(catalog, win[1]),
                              getIdFromGoodsItem(catalog, win[Len(win)]))
  /\ goodsItem' = EdgeElement(catalog, win, id)
  /\ beforeScrollTop' = scrollTopOf(pos)
  /\ pos' = scrollIntoViewIfNeeded(pos, goodsItem')
  /\ iterActs' = Append(iterActs, "scroll")
  /\ Issue("scroll")
  /\ pc' = "scrolled"
  /\ UNCHANGED <<abortedAt, ctl, others, shown, aborted, list, args, outcome, ret, selIdx, sendLocals, win, pending,
                 found, prevScrollTop, scrollContainer, button, caller, relocates, iter,
                 locResult, actGhost>>

\* ------------------------------------------------------- findGoodsItemById
\* scrollIntoViewIfNeeded resumes: getGoodsItemsScrollContainer() is issued.
Scrolled ==
  /\ pc = "scrolled"
  /\ pc' = "scrollContainer"
  /\ UNCHANGED <<scanLocals, abortGhost, ctl, others, shown, aborted, list, pos, args, outcome, ret, selIdx, sendLocals,
                 locLocals, locGhost, actGhost>>

\* getGoodsItemsScrollContainer() resumes: throw, or sleep(1000).
GetScrollContainer ==
  /\ pc = "scrollContainer"
  /\ \E present \in BOOLEAN : scrollContainer' = Found(present)
  /\ IF NoScrollContainer(scrollContainer')
       THEN /\ Throw("NoScrollContainer")
            /\ EndLocate("NoScrollContainer")
            /\ UNCHANGED iterActs
       ELSE /\ pc' = "sleep"
            /\ iterActs' = Append(iterActs, "sleep")
            /\ UNCHANGED <<outcome, ret, locResult>>
  /\ UNCHANGED <<scanLocals, abortGhost, ctl, others, shown, aborted, list, pos, args, selIdx, sendLocals, win, pending,
                 goodsItem, found, prevScrollTop, button, caller, relocates, iter, actGhost>>

\* sleep resumes: the scrollTop read is issued.
Sleep ==
  /\ pc = "sleep"
  /\ pc' = "scrollTop"
  /\ iterActs' = Append(iterActs, "scrollTop")
  /\ UNCHANGED <<scanLocals, abortGhost, ctl, others, shown, aborted, list, pos, args, outcome, ret, selIdx, sendLocals,
                 locLocals, iter, locResult, actGhost>>

\* The scrollTop read resumes: stagnation throws, otherwise the decorated
\* findGoodsItemById is entered again with currentScrollTop.
ReadScrollTopAs(currentScrollTop) ==
  /\ pc = "scrollTop"
  /\    IF Stagnated(prevScrollTop, currentScrollTop)
          THEN /\ Throw("NotFoundExhausted")
               /\ EndLocate("NotFound")
               /\ UNCHANGED <<prevScrollTop, iter, iterActs>>
          ELSE IF EntryAborted(aborted)
            THEN /\ Throw("Aborted")
                 /\ UNCHANGED <<prevScrollTop, locGhost>>
            ELSE /\ pc' = "list"
                 /\ prevScrollTop' = currentScrollTop
                 /\ iter' = Bump(iter)
                 /\ iterActs' = <<>>
                 /\ UNCHANGED <<outcome, ret, locResult>>
  /\ beforeScrollTop' = NaN
  /\ UNCHANGED <<isReversed, abortGhost, ctl, others, shown, aborted, list, pos, args, selIdx, sendLocals, win, pending,
                 goodsItem, found, scrollContainer, button, caller, relocates, actGhost>>

ReadScrollTop == ReadScrollTopAs(scrollTopOf(pos))

\* -------------------------------------------------------------------- popUp
\* getPopUpButtonFromGoodsItem(goodsItem) resumes and getPopUpButtonById
\* returns the button, unchecked: popUp hands it to the strategy, a re-locate
\* callback hands it back to the strategy.
GetPopUpButton ==
  /\ pc = "getButton"
  /\ \E present \in BOOLEAN : button' = Found(present)
  /\ pc' = "strategy"
  /\ strategyTrigger' = button'
  /\ strategyCalls' = IF caller = "popUp" THEN Bump(strategyCalls) ELSE strategyCalls
  /\ IF caller = "popUp" THEN Issue("strategy") ELSE UNCHANGED lateActs
  /\ UNCHANGED <<scanLocals, abortedAt, ctl, others, shown, aborted, list, pos, args, outcome, ret, selIdx, sendLocals, win,
                 pending, goodsItem, found, prevScrollTop, scrollContainer, caller,
                 relocates, locGhost, fills, pinClicks, submitClicks, dismissClicks>>

\* ----------------------------------------------------------- popup strategy
\* mutant: the callback hands back the button popUp already has (`() => button`)
StrategyRelocateCached ==
  /\ pc = "strategy"
  /\ relocates < MaxRelocate
  /\ relocates' = relocates + 1
  /\ UNCHANGED <<ctl, others, shown, aborted, list, pos, args, pc, outcome, ret, selIdx, sendLocals,
                 win, pending, goodsItem, found, prevScrollTop, scrollContainer, button,
                 caller, locGhost, actGhost, scanLocals, abortGhost>>

\* The strategy calls its re-locate callback, () => this.getPopUpButtonById(id).
StrategyRelocate ==
  /\ pc = "strategy"
  /\ relocates < MaxRelocate
  /\ relocates' = relocates + 1
  /\ caller' = "strategy"
  /\ EnterLocate
  /\ UNCHANGED <<scanLocals, abortGhost, ctl, others, shown, aborted, list, pos, args, selIdx, sendLocals, win, pending,
                 goodsItem, found, scrollContainer, button, actGhost>>

\* The platform confirms the popup: popUp logs success and returns.
StrategyConfirmed ==
  /\ pc = "strategy"
  /\ strategyTrigger = "present"
  /\ Return
  /\ UNCHANGED <<scanLocals, abortGhost, ctl, others, shown, aborted, list, pos, args, selIdx, sendLocals, locLocals, locGhost,
                 actGhost>>

\* The confirmation does not appear within the bounded wait.
StrategyTimeout ==
  /\ pc = "strategy"
  /\ Throw("PopupConfirmationTimeout")
  /\ UNCHANGED <<scanLocals, abortGhost, ctl, others, shown, aborted, list, pos, args, selIdx, sendLocals, locLocals, locGhost,
                 actGhost>>

\* The strategy uses a trigger that is not there.
StrategyNoTrigger ==
  /\ pc = "strategy"
  /\ strategyTrigger = "absent"
  /\ Throw("TypeError")
  /\ UNCHANGED <<scanLocals, abortGhost, ctl, others, shown, aborted, list, pos, args, selIdx, sendLocals, locLocals, locGhost,
                 actGhost>>

\* ---------------------------------------------------------------- abortable
\* Inside getCurrentGoodsItem only reads are outstanding.
InGetCurrentGoodsItem == pc \in {"list", "probe", "firstId", "lastId"}

\* The signal is raised.  The decorated methods awaiting on the stack reject
\* with the abort error, so the caller of a running command sees Aborted now;
\* a body that was inside the decorated getCurrentGoodsItem is no longer
\* awaited by findGoodsItemById (its remaining reads reach nobody), any other
\* body runs on to the next decorated entry.
Abort ==
  /\ ~aborted
  /\ pc # "done"
  /\ aborted' = TRUE
  /\ outcome' = IF outcome = "pending" THEN "Aborted" ELSE outcome
  /\ locResult' = IF locResult = "running" THEN "Aborted" ELSE locResult
  /\ pc' = IF InGetCurrentGoodsItem THEN "done" ELSE pc
  /\ abortedAt' = IF pc \in {"probe", "sleep"} THEN pc ELSE "elsewhere"
  /\ UNCHANGED <<scanLocals, lateActs, ctl, others, shown, list, pos, args, ret, selIdx, sendLocals, locLocals, iter, iterActs,
                 actGhost>>

\* The command is over; the controller is ready for the caller's next one.
Finish ==
  /\ pc = "done"
  /\ op' = "none" /\ id' = 0 /\ pinTop' = FALSE
  /\ pc' = "idle" /\ outcome' = "none" /\ ret' = "none"
  /\ selIdx' = 0
  /\ textarea' = "unset" /\ pinTopLabel' = "unset" /\ submit_btn' = "unset"
  /\ successPinTop' = FALSE
  /\ win' = <<>> /\ pending' = {} /\ goodsItem' = Null /\ found' = FALSE
  /\ prevScrollTop' = NaN /\ scrollContainer' = "unset" /\ button' = "unset"
  /\ caller' = "none" /\ relocates' = 0
  /\ iter' = 0 /\ iterActs' = <<>> /\ locResult' = "none"
  /\ fills' = 0 /\ pinClicks' = 0 /\ submitClicks' = 0 /\ dismissClicks' = 0
  /\ strategyCalls' = 0 /\ strategyTrigger' = "unset"
  /\ isReversed' = FALSE /\ beforeScrollTop' = NaN
  /\ abortedAt' = "none" /\ lateActs' = {}
  /\ shown' = {}
  /\ UNCHANGED <<ctl, others, aborted, list, pos>>

\* ------------------------------------------------------------ specification
Resume ==
  \/ RecoveryQuery \/ RecoveryClick
  \/ GetCommentTextarea \/ Fill \/ GetPinTopLabel \/ PinClick \/ GetSubmitBtn \/ SubmitClick
  \/ ReadList \/ Probe \/ FirstId \/ LastId
  \/ Scrolled \/ GetScrollContainer \/ Sleep \/ ReadScrollTop
  \/ GetPopUpButton
  \/ StrategyRelocate \/ StrategyConfirmed \/ StrategyTimeout \/ StrategyNoTrigger

Next ==
  \/ StartSendMessage
  \/ StartPopUp
  \/ Resume
  \/ Abort
  \/ Finish

Spec == Init /\ [][Next]_vars

\* Every issued page operation completes and the body resumes.
FairSpec == Spec /\ WF_vars(Resume)

\* ------------------------------------------- the stagnation band, by pixels
\* findGoodsItemById over a scroll container whose scrollTop is any pixel
\* value: popUp(2) on a one-item list has reached its first scrollTop read.
ScrollInit ==
  /\ platform = "eos"
  /\ elementFinder = getLiveControlElementFinder(platform)
  /\ popUpStrategy = getPopUpStrategy(platform)
  /\ closeOverlaysSelectors = getCloseOverlays(platform)
  /\ aborted = FALSE
  /\ catalog = <<1>> /\ overscan = 0 /\ pos = 1
  /\ op = "popUp" /\ id = 2 /\ pinTop = FALSE
  /\ pc = "scrollTop" /\ outcome = "pending" /\ ret = "none"
  /\ selIdx = 0
  /\ textarea = "unset" /\ pinTopLabel = "unset" /\ submit_btn = "unset"
  /\ successPinTop = FALSE
  /\ win = <<1>> /\ pending = {} /\ goodsItem = 1 /\ found = FALSE
  /\ prevScrollTop = NaN /\ scrollContainer = "present" /\ button = "unset"
  /\ caller = "popUp" /\ relocates = 0
  /\ iter = 1 /\ iterActs = <<"scroll", "sleep", "scrollTop">> /\ locResult = "running"
  /\ fills = 0 /\ pinClicks = 0 /\ submitClicks = 0 /\ dismissClicks = 0
  /\ strategyCalls = 0 /\ strategyTrigger = "unset"
  /\ isReversed = FALSE /\ beforeScrollTop = NaN
  /\ abortedAt = "none" /\ lateActs = {}
  /\ shown = {}
  /\ pixelTop \in 0..MaxScrollTop
  /\ RendererConstructed

\* The scrollTop read resumes with the container's pixel position.
ReadPixelScrollTop == ReadScrollTopAs(pixelTop)

\* The next iteration up to its scrollTop read: no handle matches, the edge
\* handle is scrolled into view, the container is there, the sleep is over;
\* the scroll has left the container at some pixel position.
ScanToScrollTopRead ==
  /\ pc = "list"
  /\ pc' = "scrollTop"
  /\ iterActs' = <<"scroll", "sleep", "scrollTop">>
  /\ \E top \in 0..MaxScrollTop : pixelTop' = top
  /\ UNCHANGED <<ctl, aborted, list, pos, args, outcome, ret, selIdx, sendLocals,
                 locLocals, iter, locResult, actGhost, scanLocals, abortGhost, shown,
                 renderer>>

ScrollNext == ReadPixelScrollTop \/ ScanToScrollTopRead

ScrollSpec == ScrollInit /\ [][ScrollNext]_vars

\* ------------------------------------------------------------ constructor
\* the values of LiveControlPlatform
LiveControlPlatforms ==
  {"eos", "redbook", "wxchannel", "kuaishou", "taobao", "buyin", "douyin"}

\* catalogs of at most one item
ShortCatalogs == {c \in Catalogs : Len(c) <= 1}

\* mutant: the `if (!platform)` check is missing
NoPlatformUnchecked(p) == FALSE

\* `if (!platform)`
NoPlatform(p) == p = "none"

\* Before `new LiveController(page, logger, abortSignal)`: the current
\* context has one of the platforms or none, the fields are not set.
CtorInit ==
  /\ platform \in LiveControlPlatforms \cup {"none"}
  /\ elementFinder = "unset" /\ popUpStrategy = "unset"
  /\ closeOverlaysSelectors = <<>>
  /\ aborted = FALSE
  /\ catalog \in ShortCatalogs
  /\ overscan = 0
  /\ pos = 1
  /\ op = "none" /\ id = 0 /\ pinTop = FALSE
  /\ pc = "new" /\ outcome = "none" /\ ret = "none"
  /\ selIdx = 0
  /\ textarea = "unset" /\ pinTopLabel = "unset" /\ submit_btn = "unset"
  /\ successPinTop = FALSE
  /\ win = <<>> /\ pending = {} /\ goodsItem = Null /\ found = FALSE
  /\ prevScrollTop = NaN /\ scrollContainer = "unset" /\ button = "unset"
  /\ caller = "none" /\ relocates = 0
  /\ iter = 0 /\ iterActs = <<>> /\ locResult = "none"
  /\ fills = 0 /\ pinClicks = 0 /\ submitClicks = 0 /\ dismissClicks = 0
  /\ strategyCalls = 0 /\ strategyTrigger = "unset"
  /\ isReversed = FALSE /\ beforeScrollTop = NaN
  /\ abortedAt = "none" /\ lateActs = {}
  /\ shown = {}
  /\ pixelTop = 0
  /\ RendererConstructed

\* The constructor: throw when the context has no platform, else set the
\* three platform-specific fields.
Construct ==
  /\ pc = "new"
  /\ IF NoPlatform(platform)
       THEN /\ pc' = "failed"
            /\ UNCHANGED <<elementFinder, popUpStrategy, closeOverlaysSelectors>>
       ELSE /\ pc' = "idle"
            /\ elementFinder' = getLiveControlElementFinder(platform)
            /\ popUpStrategy' = getPopUpStrategy(platform)
            /\ closeOverlaysSelectors' = getCloseOverlays(platform)
  /\ UNCHANGED <<platform, others, shown, aborted, list, pos, args, outcome, ret, selIdx,
                 sendLocals, locLocals, locGhost, actGhost, scanLocals, abortGhost>>

CtorNext == Construct \/ Next

CtorSpec == CtorInit /\ [][CtorNext]_vars

\* ------------------------------------------ PrintService and handleComment
\* everything LiveController's constructor and commands work on
controller == <<ctl, aborted, list, pos, args, pc, outcome, ret, selIdx, sendLocals,
                locLocals, locGhost, actGhost, scanLocals, abortGhost, shown, pixelTop>>

\* `if (!this.isReady || !window.getCLodop)`
NotReady == ~isReady \/ ~getCLodop

\* mutant: the printed-id set is not consulted
DuplicateUnchecked(c) == FALSE

\* `if (this.printedCommentIds.has(comment.msg_id))`
Duplicate(c) == c.msg_id \in printedCommentIds

\* how the try block of printComment ends: getCLodop() returns nothing, a
\* LODOP call throws, or LODOP.PRINT() is reached
Attempts == {"noLodop", "throws", "printed"}

\* the value printComment returns
printResult(c, attempt) == ~NotReady /\ ~Duplicate(c) /\ attempt = "printed"

\* PrintService.printComment(comment, options)
printComment(c, attempt) ==
  IF NotReady \/ Duplicate(c)
    THEN UNCHANGED <<_printCount, printedCommentIds, printed>>
    ELSE /\ printedCommentIds' = printedCommentIds \cup {c.msg_id}
         /\ _printCount' = _printCount + 1
         /\ printed' = IF attempt = "printed"
                         THEN [printed EXCEPT ![c.msg_id] = Bump(@)]
                         ELSE printed

\* PrintService.init(), at its end: the CLodop script is there or was loaded
\* or failed to load, and the CLODOP object showed a VERSION or never did.
init ==
  /\ \E script \in {"loaded", "failed"}, version \in BOOLEAN :
       /\ getCLodop' = (getCLodop \/ script = "loaded")
       /\ isReady' = (getCLodop' /\ version)
  /\ comment' = NoComment /\ did' = Idle
  /\ UNCHANGED <<_printCount, printedCommentIds, printed, printSettings, context,
                 controller>>

\* handleResetPrintCount: PrintService.resetPrintCount()
resetPrintCount ==
  /\ _printCount' = 0
  /\ printedCommentIds' = {}
  /\ printed' = [m \in MsgIds |-> 0]
  /\ comment' = NoComment /\ did' = Idle
  /\ UNCHANGED <<isReady, getCLodop, printSettings, context, controller>>

\* usePrintSettings.setEnabled
setEnabled ==
  /\ \E e \in BOOLEAN : enabled' = e
  /\ comment' = NoComment /\ did' = Idle
  /\ UNCHANGED <<printFields, rules, limitRule, context, printed, controller>>

\* usePrintSettings.updateRule(0, {enabled})
updateRule ==
  /\ \E e \in BOOLEAN : rules' = [rules EXCEPT ![1].enabled = e]
  /\ comment' = NoComment /\ did' = Idle
  /\ UNCHANGED <<printFields, enabled, limitRule, context, printed, controller>>

\* `Number.parseInt(e.target.value) || 1` of the count input
CountOf(n) == IF n = 0 THEN 1 ELSE n

\* what the limit controls pass to updateLimitRule: a count typed into the
\* input, or the state of the switch
LimitUpdates ==
  {[count |-> CountOf(n)] : n \in -1..MaxLimitCount} \cup {[enabled |-> e] : e \in BOOLEAN}

\* usePrintSettings.updateLimitRule(rule): { ...state.limitRule, ...rule }
updateLimitRule ==
  /\ \E rule \in LimitUpdates :
       limitRule' = [f \in {"count", "enabled"} |->
                       IF f \in DOMAIN rule THEN rule[f] ELSE limitRule[f]]
  /\ comment' = NoComment /\ did' = Idle
  /\ UNCHANGED <<printFields, enabled, rules, context, printed, controller>>

\* store.setIsRunning(accountId, running)
setIsRunning ==
  /\ \E running \in BOOLEAN : isRunning' = running
  /\ comment' = NoComment /\ did' = Idle
  /\ UNCHANGED <<printFields, printSettings, comments, config, printed, controller>>

\* store.updateConfig(accountId, {...: {enable}})
updateConfig ==
  /\ \E f \in DOMAIN config, enable \in BOOLEAN : config' = [config EXCEPT ![f] = enable]
  /\ comment' = NoComment /\ did' = Idle
  /\ UNCHANGED <<printFields, printSettings, isRunning, comments, printed, controller>>

\* store.addComment: the newest first, at most MAX_COMMENTS kept
addComment(cs, c) == SubSeq(<<c.msg_id>> \o cs, 1, Min(Len(cs) + 1, MaxComments))

\* mutant: the block list is not consulted
SkippedUnblocked(c) == ~isRunning \/ c.nick_name = accountName

\* `!isRunning || comment.nick_name === accountName ||
\*  config.blockList?.includes(comment.nick_name)`
Skipped(c) ==
  \/ ~isRunning
  \/ c.nick_name = accountName
  \/ c.nick_name \in blockList

\* `comment.msg_type === 'comment' && printSettings.enabled`
AutoPrint(c) == c.msg_type = "comment" /\ enabled

\* mutants: the limit is reached one print late; the limit is never reached
LimitReachedLate == limitRule.enabled /\ _printCount > limitRule.count
LimitNeverReached == FALSE

\* `limitRule.enabled && printService.getPrintCount() >= limitRule.count`
LimitReached == limitRule.enabled /\ _printCount >= limitRule.count

\* the switch over rule.type (no regex rule is among the rules of the model)
RuleMatched(rule, content) ==
  CASE rule.type = "exact-match" -> content = rule.pattern
    [] rule.type = "contains" -> Includes(content, rule.pattern)
    [] OTHER -> FALSE

\* `!hasEnabledRules || hasMatchedRules`
ShouldPrint(content) ==
  LET hasEnabledRules == \E i \in 1..Len(rules) : rules[i].enabled
      hasMatchedRules ==
        \E i \in 1..Len(rules) : rules[i].enabled /\ RuleMatched(rules[i], content)
  IN ~hasEnabledRules \/ hasMatchedRules

\* rules.find(...): the index of the first rule with a keyword in the
\* content, 0 when there is none
FindRule(content) ==
  LET hits == {i \in 1..Len(KeywordRules) :
                 \E kw \in KeywordRules[i].keywords : Includes(content, kw)}
  IN IF hits = {} THEN 0 ELSE CHOOSE i \in hits : \A j \in hits : i <= j

\* what getRandomElement may return for rule.contents
Picks == 1..2

\* handleKeywordReply: TRUE when a rule matched and a reply was sent
handleKeywordReply(content, pick) ==
  /\ config.keywordReply
  /\ content # {}
  /\ FindRule(content) # 0
  /\ LET rule == KeywordRules[FindRule(content)]
     IN /\ Len(rule.contents) > 0
        /\ pick \in 1..Len(rule.contents)
        /\ rule.contents[pick] # ""

\* sendConfiguredReply: a reply goes out when the event's replies are
\* enabled and hold a message
sendConfiguredReply(c) ==
  c.msg_type = "room_enter" /\ room_enter.enable /\ Len(room_enter.messages) > 0

\* the contents a message of the type may carry: only a comment has one
ContentsOf(type) == IF type = "comment" THEN Contents ELSE {{}}

\* handleComment(comment, accountId), for a comment with some content
handleComment ==
  /\ \E c \in Comments :
       LET isComment == c.msg_type = "comment"
       IN /\ comment' = c
          /\ comments' = addComment(comments, c)
          /\ IF Skipped(c)
               THEN /\ did' = [Idle EXCEPT !.handler = "handleComment",
                                           !.returnedAt = "skip"]
                    /\ UNCHANGED <<_printCount, printedCommentIds, printed>>
               ELSE IF AutoPrint(c) /\ LimitReached
               THEN /\ did' = [Idle EXCEPT !.handler = "handleComment",
                                           !.returnedAt = "limit"]
                    /\ UNCHANGED <<_printCount, printedCommentIds, printed>>
               ELSE \E content \in ContentsOf(c.msg_type) :
                    LET shouldPrint == AutoPrint(c) /\ ShouldPrint(content)
                    IN
                    \E attempt \in IF shouldPrint THEN Attempts ELSE {"printed"},
                       pick \in IF isComment /\ FindRule(content) # 0 THEN Picks ELSE {1} :
                      LET keywordReplied == isComment /\ handleKeywordReply(content, pick)
                          aiTried == isComment /\ ~keywordReplied /\ config.aiReply
                      IN /\ IF shouldPrint
                              THEN printComment(c, attempt)
                              ELSE UNCHANGED <<_printCount, printedCommentIds, printed>>
                         /\ did' = [handler |-> "handleComment",
                                    returnedAt |-> "end",
                                    printCalled |-> shouldPrint,
                                    printResult |-> IF shouldPrint
                                                      THEN printResult(c, attempt)
                                                      ELSE "none",
                                    keywordTried |-> isComment,
                                    keywordReplied |-> keywordReplied,
                                    aiTried |-> aiTried,
                                    sent |-> IF keywordReplied THEN "keyword"
                                             ELSE IF ~isComment /\ sendConfiguredReply(c)
                                             THEN "event"
                                             ELSE "none"]
  /\ UNCHANGED <<isReady, getCLodop, printSettings, isRunning, config, controller>>

\* The renderer, with no LiveController in it.
RendererInit == CtorInit /\ platform = "none" /\ catalog = <<>>

RendererNext ==
  \/ init
  \/ resetPrintCount
  \/ setEnabled
  \/ updateRule
  \/ updateLimitRule
  \/ setIsRunning
  \/ updateConfig
  \/ handleComment

RendererSpec == RendererInit /\ [][RendererNext]_vars

\* =================================================================== claims
WinIds == {getIdFromGoodsItem(catalog, win[k]) : k \in 1..Len(win)}
NotFoundErrors == {"NotFoundEmpty", "NotFoundExhausted"}

\* C1: whenever the locator returns a handle (found), the identifier read
\* from that handle equals the requested id, whatever windows and scrolls
\* came before.
C1_ReturnedHandleHasTargetId ==
  found => /\ goodsItem # Null
           /\ getIdFromGoodsItem(catalog, goodsItem) = id

\* a handle returned after at least one scroll-and-reload iteration
C1_Witness == found /\ iter >= 2 /\ locResult = "found"

\* C2: an iteration whose window holds the target ends in the probe phase:
\* it never goes on to the edge reads, and the matching handle is returned
\* with no scroll, sleep or scrollTop read in that iteration; in the first
\* iteration that is no such action since the locate run began.
C2_ProbePhaseAlone ==
  (locResult \in {"running", "found"} /\ pc # "list" /\ id \in WinIds)
    => /\ iterActs = <<>>
       /\ \/ pc = "probe" /\ ~found
          \/ /\ found
             /\ locResult = "found"
             /\ getIdFromGoodsItem(catalog, goodsItem) = id
             /\ \A k \in 1..Len(win) :
                  getIdFromGoodsItem(catalog, win[k]) = id => win[k] = goodsItem

\* the target found in the first window read, a window of three
C2_Witness ==
  /\ pc = "getButton" /\ caller = "popUp" /\ iter = 1 /\ Len(win) = 3
  /\ found /\ iterActs = <<>>

\* C3: a locate run for an id that is not in the catalog terminates.
C3_AbsentTargetTerminates ==
  (locResult = "running" /\ id \notin Range(catalog)) ~> (locResult # "running")

\* C4 (as stated): with a monotone catalog, a window that moves when an edge
\* row is scrolled into view and the target in the catalog, a locate run that
\* is not cancelled ends by returning the handle.
C4_Hyp ==
  /\ op = "popUp"
  /\ Monotone(catalog)
  /\ overscan >= 1
  /\ id \in Range(catalog)

C5_EmptyWindowFailsAtOnce ==
  (locResult \in {"running", "found", "NotFound", "NoScrollContainer"}
     /\ pc # "list" /\ win = <<>>)
    => /\ pc = "done"
       /\ outcome = "NotFoundEmpty"
       /\ locResult = "NotFound"
       /\ iterActs = <<>>

C5_Witness == outcome = "NotFoundEmpty" /\ win = <<>> /\ iterActs = <<>>

\* C6: what the caller of popUp observes is success or one of NotFound,
\* NoPopupTrigger, PopupConfirmationTimeout, Aborted (runs that hand the
\* strategy an absent trigger, and runs a rejected overlay query or dismiss
\* click ended, set aside).
C6_PopUpErrorSet ==
  (op = "popUp" /\ strategyTrigger # "absent" /\ outcome # "PageError")
    => outcome \in {"pending", "ok", "NoPopupTrigger", "PopupConfirmationTimeout",
                    "Aborted"} \cup NotFoundErrors

\* C7: when the trigger of the resolved handle is absent, popUp fails with
\* NoPopupTrigger and the strategy is not given the absent trigger.
C7_AbsentTriggerNotPassed ==
  (op = "popUp" /\ button = "absent")
    => /\ strategyTrigger # "absent"
       /\ pc = "done"
       /\ outcome \in {"NoPopupTrigger", "Aborted"}

\* C8: sendMessage(text, true) that succeeds has filled once, submitted once
\* and returns {pinned: false} when the pin control was absent, {pinned: true}
\* when it was clicked.
C8_ReturnsPinned ==
  (op = "sendMessage" /\ pinTop /\ pc = "done" /\ outcome = "ok")
    => /\ fills = 1
       /\ submitClicks = 1
       /\ ret = IF NoPinTopLabel(pinTopLabel) THEN "{pinned:false}" ELSE "{pinned:true}"

\* C9: with the comment textarea absent, sendMessage throws NoInputSurface
\* in the step that learned it and has issued no fill, no pin click and no
\* submit click.
C9_NoInputSurface ==
  textarea = "absent"
    => /\ pc = "done"
       /\ outcome = (IF aborted THEN "Aborted" ELSE "NoInputSurface")
       /\ fills = 0 /\ pinClicks = 0 /\ submitClicks = 0
       /\ pinTopLabel = "unset" /\ submit_btn = "unset"

C9_Witness == textarea = "absent" /\ outcome = "NoInputSurface" /\ dismissClicks >= 1

\* C10: with no clickable submit button, sendMessage throws NotSubmittable
\* in the step that learned it and issues no submit click.
C10_NotSubmittable ==
  submit_btn = "absent"
    => /\ pc = "done"
       /\ outcome = (IF aborted THEN "Aborted" ELSE "NotSubmittable")
       /\ submitClicks = 0

C10_Witness ==
  submit_btn = "absent" /\ outcome = "NotSubmittable" /\ fills = 1 /\ pinClicks = 1

\* C11: recoveryLive never fails: whatever overlays are present or absent,
\* and also when an overlay query or a dismiss click rejects, the command
\* gets past recoveryLive; no command ends with the page's rejection.
C11_RecoveryNeverFails == outcome # "PageError"

\* C12: when the signal is raised while the locator is suspended in the
\* settle sleep, the command fails Aborted and issues no scroll, click,
\* dismiss, fill or strategy call from then on: the body goes on to the
\* scrollTop read and ends there, it never re-enters the locator.
C12_AbortInSettleWait ==
  abortedAt = "sleep"
    => /\ outcome = "Aborted"
       /\ locResult = "Aborted"
       /\ lateActs = {}
       /\ pc \in {"sleep", "scrollTop", "done"}

\* the body has made its scrollTop read after the abort and has ended
C12_Witness ==
  /\ abortedAt = "sleep" /\ pc = "done" /\ outcome = "Aborted"
  /\ iterActs = <<"scroll", "sleep", "scrollTop">>

\* C13: in sendMessage and popUp, at whatever await the body is suspended
\* when the signal is raised, the command issues no dismiss, fill, click or
\* scroll after that.
C13_NoActionAfterAbort == lateActs \cap {"dismiss", "fill", "click", "scroll"} = {}

FirstIdValue == getIdFromGoodsItem(catalog, win[1])
LastIdValue == getIdFromGoodsItem(catalog, win[Len(win)])

\* C15: for a window of two or more ids without a match, the handle brought
\* into view is the first one when the window ascends and the target is
\* below the first id, or the window descends and the target is above the
\* first id; it is the last one when the window ascends and the target is
\* above the last id, or the window descends and the target is below the
\* last id.
C15_EdgeBroughtIntoView ==
  (pc = "scrolled" /\ Len(win) >= 2)
    => /\ pos = goodsItem
       /\ (FirstIdValue < LastIdValue /\ id < FirstIdValue) => goodsItem = win[1]
       /\ (FirstIdValue < LastIdValue /\ id > LastIdValue) => goodsItem = win[Len(win)]
       /\ (FirstIdValue > LastIdValue /\ id > FirstIdValue) => goodsItem = win[1]
       /\ (FirstIdValue > LastIdValue /\ id < LastIdValue) => goodsItem = win[Len(win)]

\* a descending window, the target above its first id, the first handle
\* brought into view from further down
C15_Witness ==
  /\ pc = "scrolled" /\ Len(win) >= 2
  /\ FirstIdValue > LastIdValue /\ id > FirstIdValue
  /\ goodsItem = win[1] /\ beforeScrollTop > scrollTopOf(pos)

\* C16: within one popUp(id) the locator starts only after recoveryLive has
\* visited every selector, the trigger is looked up only on the handle the
\* locator returned, and the strategy is invoked only with the trigger so
\* obtained; when the locator fails NotFound the caller sees that failure
\* and neither the trigger lookup nor the strategy has run.
C16_PopUpOrder ==
  op = "popUp"
    => /\ locResult # "none"
            => /\ selIdx = Len(closeOverlaysSelectors)
               /\ pc \notin {"recoveryQuery", "recoveryClick"}
       /\ (caller = "popUp" /\ button # "unset")
            => /\ locResult = "found"
               /\ found
               /\ getIdFromGoodsItem(catalog, goodsItem) = id
       /\ strategyCalls > 0
            => /\ button # "unset"
               /\ strategyTrigger = button
       /\ (caller = "popUp" /\ locResult = "NotFound")
            => /\ pc = "done"
               /\ outcome \in NotFoundErrors
               /\ button = "unset"
               /\ strategyCalls = 0 /\ strategyTrigger = "unset"

\* a popUp that dismissed an overlay, scrolled to its item and succeeded
C16_Witness ==
  /\ op = "popUp" /\ outcome = "ok" /\ caller = "popUp"
  /\ Len(closeOverlaysSelectors) = 2 /\ dismissClicks >= 1
  /\ iter >= 2 /\ strategyCalls = 1

\* the iteration has classified its window and issued its scroll
Classified == pc \in {"scrolled", "scrollContainer", "sleep", "scrollTop"}

\* C17 (as stated): a window without a match is classified ascending exactly
\* when its first id is below its last id and descending in every other
\* case, equal ids included.
C17_DescendingUnlessBelow ==
  Classified => (~isReversed <=> FirstIdValue < LastIdValue)

\* C17 (amended): a window without a match is classified descending exactly
\* when its first id is above its last id and ascending in every other case,
\* equal ids included.
C17_AscendingUnlessAbove ==
  Classified => (isReversed <=> FirstIdValue > LastIdValue)

\* equal first and last ids, classified ascending
C17_Witness ==
  /\ pc = "scrolled" /\ FirstIdValue = LastIdValue /\ ~isReversed

\* the scroll of this iteration left the scroll position where it was
Unmoved ==
  /\ beforeScrollTop - Tolerance <= scrollTopOf(pos)
  /\ scrollTopOf(pos) <= beforeScrollTop + Tolerance

\* the scrollTop read resumes in a body whose command is not cancelled
StagnationCheck == pc = "scrollTop" /\ pc' # "scrollTop" /\ ~aborted

\* C18 (as stated): for a one-item window whose id is not the target, the
\* locator scrolls once and, the position not having moved, fails NotFound
\* at the check that follows, without a second scroll.
C18_SingleItemOneScroll ==
  [][(StagnationCheck /\ Len(win) = 1 /\ Unmoved)
       => (pc' = "done" /\ locResult' = "NotFound")]_vars

\* C18 (amended): for a one-item window whose id is not the target, the
\* iteration scrolls its one handle into view once; in an iteration after
\* the first the position not having moved makes the locator fail NotFound
\* in that iteration; in the first iteration of a run there is no baseline
\* and the locator starts a second iteration.
C18_SingleItemTwoScrolls ==
  /\ []((Classified /\ Len(win) = 1)
          => (goodsItem = win[1] /\ iterActs[1] = "scroll" /\ Unmoved
              /\ \A k \in 2..Len(iterActs) : iterActs[k] # "scroll"))
  /\ [][(StagnationCheck /\ Len(win) = 1)
          => IF iter = 1
               THEN pc' = "list" /\ iter' = 2 /\ locResult' = locResult
               ELSE /\ pc' = "done"
                    /\ locResult' = "NotFound"
                    /\ outcome' = "NotFoundExhausted"]_vars

\* a one-item window, NotFound in the second iteration
C18_Witness ==
  /\ Len(win) = 1 /\ iter = 2 /\ pc = "done"
  /\ outcome = "NotFoundExhausted" /\ iterActs = <<"scroll", "sleep", "scrollTop">>

\* the target lies strictly between the first and the last id of the window
InsideRange ==
  /\ Min(FirstIdValue, LastIdValue) < id
  /\ id < Max(FirstIdValue, LastIdValue)

Distance(a, b) == IF a > b THEN a - b ELSE b - a

\* C19 (as stated): with the target strictly inside the range of the window
\* and no handle matching, the handle brought into view is the first one
\* when the target is closer to the first id and the last one when it is
\* closer to the last id.
C19_NearerEdge ==
  (pc = "scrolled" /\ InsideRange)
    => /\ Distance(id, FirstIdValue) < Distance(id, LastIdValue) => goodsItem = win[1]
       /\ Distance(id, LastIdValue) < Distance(id, FirstIdValue)
            => goodsItem = win[Len(win)]

\* C19 (amended): with the target strictly inside the range of the window
\* and no handle matching, the handle brought into view is the last one,
\* whichever id the target is closer to.
C19_AlwaysLastEdge ==
  (pc = "scrolled" /\ InsideRange)
    => /\ goodsItem = win[Len(win)]
       /\ pos = goodsItem

\* the target closer to the first id, the last handle brought into view
C19_Witness ==
  /\ pc = "scrolled" /\ InsideRange
  /\ Distance(id, FirstIdValue) < Distance(id, LastIdValue)
  /\ goodsItem = win[Len(win)] /\ goodsItem # win[1]

\* C20 (as stated): in every iteration, the first one of a run included,
\* when the position read after the settle sleep does not differ materially
\* from the one held before the iteration's scroll, the locator fails
\* NotFound in that iteration and does not recurse.
C20_EveryIterationChecks ==
  [][(StagnationCheck /\ Unmoved) => (pc' = "done" /\ locResult' = "NotFound")]_vars

\* C20 (amended): in every iteration after the first of a run the baseline
\* of the stagnation check is the position held before the iteration's
\* scroll (the one read at the end of the iteration before); when the
\* position read after the settle sleep does not differ materially from it
\* the locator fails NotFound in that iteration, otherwise it recurses with
\* the new position as baseline.  The first iteration has no baseline and
\* always recurses.
C20_LaterIterationsCheck ==
  /\ []((Classified /\ iter >= 2) => prevScrollTop = beforeScrollTop)
  /\ []((Classified /\ iter = 1) => prevScrollTop = NaN)
  /\ [][StagnationCheck
          => IF iter >= 2 /\ Unmoved
               THEN /\ pc' = "done"
                    /\ locResult' = "NotFound"
                    /\ outcome' = "NotFoundExhausted"
               ELSE /\ pc' = "list"
                    /\ prevScrollTop' = scrollTopOf(pos)
                    /\ locResult' = locResult]_vars

\* NotFound in a later iteration, after a scroll that had moved the list
C20_Witness ==
  /\ pc = "done" /\ outcome = "NotFoundExhausted"
  /\ iter >= 2 /\ prevScrollTop > 0 /\ Len(win) >= 2

\* C21: with a baseline p from the iteration before and a new position c,
\* the locator fails NotFound exactly when p - 10 <= c <= p + 10, both ends
\* included, and otherwise recurses with c as the next baseline; the
\* baseline of an iteration is the position read at the end of the one
\* before it, never an older one.
C21_ToleranceBand ==
  [][(pc = "scrollTop" /\ pc' # "scrollTop")
       => IF /\ prevScrollTop # NaN
             /\ prevScrollTop - 10 <= pixelTop
             /\ pixelTop <= prevScrollTop + 10
            THEN /\ pc' = "done"
                 /\ locResult' = "NotFound"
                 /\ outcome' = "NotFoundExhausted"
            ELSE /\ pc' = "list"
                 /\ prevScrollTop' = pixelTop
                 /\ locResult' = "running"]_vars

\* NotFound with the new position exactly 10 above the baseline
C21_Witness ==
  /\ pc = "done" /\ outcome = "NotFoundExhausted"
  /\ prevScrollTop # NaN /\ pixelTop = prevScrollTop + 10

\* C22: whatever the order in which the id reads of a window complete, the
\* probe phase returns the one handle whose id is the target when the window
\* has it, and goes on to the no-match path only when every probe of the
\* window has completed without matching.
C22_ProbeOrderIrrelevant ==
  /\ pc = "probe"
       => /\ pending # {}
          /\ ~found
          /\ \A k \in (1..Len(win)) \ pending : getIdFromGoodsItem(catalog, win[k]) # id
  /\ (pc \in {"firstId", "lastId"} \/ Classified)
       => /\ pending = {}
          /\ ~found
          /\ id \notin WinIds
  /\ pc = "getButton"
       => /\ found
          /\ \E k \in 1..Len(win) : win[k] = goodsItem
          /\ \A k \in 1..Len(win) :
               getIdFromGoodsItem(catalog, win[k]) = id <=> win[k] = goodsItem

\* the probe of the last of three handles matched before the two others completed
C22_Witness ==
  /\ pc = "getButton" /\ found /\ Len(win) = 3
  /\ goodsItem = win[3] /\ pending = {1, 2}

\* the handle in goodsItem was taken from a window read after the last
\* scroll: the window is what the page shows now and holds the handle
FreshHandle ==
  /\ found
  /\ iterActs = <<>>
  /\ win = getCurrentGoodsItemsList(catalog, pos, overscan)
  /\ \E k \in 1..Len(win) : win[k] = goodsItem
  /\ getIdFromGoodsItem(catalog, goodsItem) = id

\* C23: the handle the locator returns, and the trigger looked up on it for
\* the strategy or for its re-locate callback, come from a window read after
\* the last scroll of the run, never from one read before it; every call of
\* the callback starts a locate run of its own for the same id.
C23_FreshHandles ==
  /\ pc \in {"getButton", "strategy"} => FreshHandle
  /\ relocates > 0
       => /\ caller = "strategy"
          /\ \/ pc = "done"
             \/ locResult \in {"running", "found"}

\* the callback has located the item again, on a list popUp had scrolled
C23_Witness ==
  /\ pc = "strategy" /\ caller = "strategy" /\ relocates = 1
  /\ pos > 1 /\ FreshHandle

\* C24: an iteration without a match makes one scrollIntoViewIfNeeded, on
\* the first or the last handle of the window it has just read, then the
\* settle sleep, then the scrollTop read, in that order and nothing else;
\* while the probes and the two edge id reads are outstanding nothing is
\* scrolled, clicked or filled.
C24_IterationActions ==
  /\ [](pc \in {"probe", "firstId", "lastId"} => iterActs = <<>>)
  /\ [](pc \in {"scrolled", "scrollContainer"} => iterActs = <<"scroll">>)
  /\ [](pc = "sleep" => iterActs = <<"scroll", "sleep">>)
  /\ [](pc = "scrollTop" => iterActs = <<"scroll", "sleep", "scrollTop">>)
  /\ [](Classified
          => /\ id \notin WinIds
             /\ goodsItem \in {win[1], win[Len(win)]}
             /\ pos = goodsItem)
  /\ [][(pc \in {"probe", "firstId"})
          => (UNCHANGED <<pos, fills, pinClicks, submitClicks, dismissClicks,
                          strategyCalls, lateActs>>)]_vars

\* a later iteration that scrolled the first handle into view has reached
\* its scrollTop read
C24_Witness ==
  /\ pc = "scrollTop" /\ iter >= 2 /\ Len(win) >= 2
  /\ goodsItem = win[1] /\ iterActs = <<"scroll", "sleep", "scrollTop">>

\* recoveryLive is running
InRecovery == pc \in {"recoveryQuery", "recoveryClick"}

\* C25: one call of recoveryLive visits the selectors in list order, one at
\* a time, and clicks a selector's element once when the query found it and
\* not at all when it did not; a call that finds no element (as a second
\* call does once the overlays are gone) clicks nothing, and no call changes
\* anything but the overlays it clicks.
C25_RecoveryOrderedIdempotent ==
  /\ [](InRecovery
          => /\ selIdx \in 1..Len(closeOverlaysSelectors)
             /\ shown \subseteq 1..selIdx
             /\ dismissClicks = Cardinality(shown)
             /\ pc = "recoveryClick" <=> selIdx \in shown)
  /\ [][InRecovery
          => /\ selIdx' \in {selIdx, selIdx + 1}
             /\ dismissClicks' # dismissClicks
                  => (pc = "recoveryQuery" /\ pc' = "recoveryClick"
                      /\ dismissClicks' = dismissClicks + 1)
             /\ UNCHANGED <<pos, list, ctl, fills, pinClicks, submitClicks,
                            strategyCalls>>]_vars
  /\ [][(InRecovery /\ ~InRecovery' /\ shown = {}) => dismissClicks' = 0]_vars

\* a later command on kuaishou: the first selector absent, the second found
\* and clicked
C25_Witness ==
  /\ pc = "recoveryClick" /\ selIdx = 2 /\ shown = {2} /\ dismissClicks = 1
  /\ pos > 1

\* C26: the finder, the popup strategy and the overlay selectors are set by
\* the constructor from the platform of the current context and no step of
\* sendMessage, popUp or recoveryLive changes them afterwards; with no
\* platform in the context the constructor throws and there is no
\* controller to run a command on.
C26_PlatformPartsFixed ==
  /\ [](pc \notin {"new", "failed"}
          => /\ platform \in LiveControlPlatforms
             /\ elementFinder = getLiveControlElementFinder(platform)
             /\ elementFinder # "undefined"
             /\ popUpStrategy = getPopUpStrategy(platform)
             /\ closeOverlaysSelectors = getCloseOverlays(platform))
  /\ [](platform = "none"
          => /\ pc \in {"new", "failed"}
             /\ op = "none"
             /\ elementFinder = "unset" /\ popUpStrategy = "unset"
             /\ closeOverlaysSelectors = <<>>)
  /\ [][pc # "new" => UNCHANGED ctl]_vars

\* a popUp on a douyin controller has dismissed an overlay and run its strategy
C26_Witness ==
  /\ platform = "douyin" /\ elementFinder = "BuyinLiveControlElementFinder"
  /\ Len(closeOverlaysSelectors) = 2
  /\ op = "popUp" /\ pc = "done" /\ dismissClicks >= 1 /\ strategyCalls >= 1

\* C27: between two resets a msg_id reaches the printer at most once, and
\* getPrintCount() is the size of the printed-id set (the ids accepted since
\* the last reset), whether their print attempt succeeded or failed; a
\* printComment call on a service that is not ready returns false and leaves
\* the count and the id set alone.
C27_PrintedOncePerReset ==
  /\ [](\A m \in MsgIds : printed[m] <= 1)
  /\ [](\A m \in MsgIds : printed[m] = 1 => m \in printedCommentIds)
  /\ [](_printCount = Cardinality(printedCommentIds))
  /\ [][(did'.printCalled /\ NotReady)
          => (did'.printResult = FALSE /\ UNCHANGED <<_printCount, printedCommentIds>>)]_vars
\* two ids are counted, one printed and one whose attempt failed, and the
\* call that ran last was turned down as a duplicate of the printed one
C27_Witness ==
  /\ ~NotReady /\ _printCount = 2
  /\ \E m \in printedCommentIds : printed[m] = 0
  /\ did.handler = "handleComment" /\ did.printCalled /\ did.printResult = FALSE
  /\ comment.msg_id \in printedCommentIds /\ printed[comment.msg_id] = 1

\* C28: with auto-print on and the limit rule enabled with count N, a
\* handleComment call made when getPrintCount() >= N does not call
\* printComment and leaves the count alone, and a call made when the count
\* is at most N leaves it at most N (raising it by one at most): over any
\* sequence of handled comments the count does not pass N.
C28_LimitStopsPrinting ==
  /\ [][(did'.handler = "handleComment" /\ enabled /\ limitRule.enabled
           /\ _printCount >= limitRule.count)
          => (~did'.printCalled /\ UNCHANGED <<_printCount, printedCommentIds>>)]_vars
  /\ [][(did'.handler = "handleComment" /\ enabled /\ limitRule.enabled
           /\ _printCount <= limitRule.count)
          => (_printCount' <= limitRule.count /\ _printCount' <= _printCount + 1)]_vars
\* the count stands at N = 1 after a print, and a comment not printed before
\* has been turned away at the limit check by a ready service
C28_Witness ==
  /\ enabled /\ limitRule.enabled /\ limitRule.count = 1 /\ _printCount = 1
  /\ ~NotReady /\ isRunning /\ \E m \in MsgIds : printed[m] = 1
  /\ did.handler = "handleComment" /\ did.returnedAt = "limit"
  /\ comment.msg_type = "comment" /\ comment.msg_id \notin printedCommentIds

\* C29 as stated: when the limit rule is enabled and the count has reached
\* it, a handleComment call for a comment of a running account from a sender
\* who is not blocked attempts neither the keyword reply nor the AI reply.
C29_LimitReachedNoReply ==
  [][(did'.handler = "handleComment" /\ comment'.msg_type = "comment"
        /\ limitRule.enabled /\ _printCount >= limitRule.count
        /\ isRunning /\ comment'.nick_name \notin blockList)
       => (~did'.keywordTried /\ ~did'.aiTried)]_vars
\* C29: when auto-print is on, the limit rule is enabled and the count has
\* reached it, a handleComment call for a comment that is not skipped
\* returns at the limit check: nothing is printed, neither reply is
\* attempted, nothing is sent. With auto-print off the limit is not looked
\* at and the replies are attempted as usual.
C29_AutoPrintLimitReachedNoReply ==
  /\ [][(did'.handler = "handleComment" /\ comment'.msg_type = "comment"
           /\ enabled /\ limitRule.enabled /\ _printCount >= limitRule.count
           /\ ~Skipped(comment'))
          => (/\ did'.returnedAt = "limit"
              /\ ~did'.printCalled /\ ~did'.keywordTried /\ ~did'.aiTried
              /\ did'.sent = "none")]_vars
  /\ [][(did'.handler = "handleComment" /\ comment'.msg_type = "comment"
           /\ ~enabled /\ ~Skipped(comment'))
          => (/\ did'.returnedAt = "end" /\ did'.keywordTried
              /\ did'.aiTried = (~did'.keywordReplied /\ config.aiReply))]_vars
\* both replies are switched on, the account runs, and a comment of another
\* sender has been turned away at the limit check
C29_Witness ==
  /\ enabled /\ limitRule.enabled /\ _printCount >= limitRule.count
  /\ isRunning /\ config.keywordReply /\ config.aiReply
  /\ did.handler = "handleComment" /\ did.returnedAt = "limit"
  /\ comment.msg_type = "comment" /\ comment.nick_name = "fan"

\* C30: every handleComment call puts its message at the head of the
\* account's comment list; when the account is not running, or the sender is
\* the streamer's own account name, or the sender is in the block list, the
\* call prints nothing and attempts and sends no reply; for a comment that
\* passes these checks the AI reply is attempted only if the keyword reply
\* did not match and send.
C30_StoredThenSkippedOrReplied ==
  /\ [][(did'.handler = "handleComment")
          => (/\ Len(comments') = Min(Len(comments) + 1, MaxComments)
              /\ comments'[1] = comment'.msg_id
              /\ \A i \in 2..Len(comments') : comments'[i] = comments[i - 1])]_vars
  /\ [][(did'.handler = "handleComment"
           /\ (\/ ~isRunning
               \/ comment'.nick_name = accountName
               \/ comment'.nick_name \in blockList))
          => (/\ did'.returnedAt = "skip"
              /\ ~did'.printCalled /\ ~did'.keywordTried /\ ~did'.aiTried
              /\ did'.sent = "none"
              /\ UNCHANGED <<_printCount, printedCommentIds, printed>>)]_vars
  /\ [][(did'.handler = "handleComment" /\ comment'.msg_type = "comment")
          => (/\ did'.aiTried => (did'.keywordTried /\ ~did'.keywordReplied)
              /\ did'.keywordReplied = (did'.sent = "keyword"))]_vars
\* printing and both replies are on and the account runs: the comment of a
\* blocked sender has been stored and skipped
C30_Witness ==
  /\ isRunning /\ enabled /\ ~limitRule.enabled /\ ~NotReady
  /\ config.keywordReply /\ config.aiReply
  /\ did.handler = "handleComment" /\ did.returnedAt = "skip"
  /\ comment.msg_type = "comment" /\ comment.nick_name \in blockList
  /\ comments[1] = comment.msg_id /\ comment.msg_id \notin printedCommentIds

====
